---- MODULE Spec2Model ----
(***************************************************************************)
(* Transaction config directives of the functional-test harness:           *)
(* language/functional_tests/src/config/transaction.rs.                    *)
(*                                                                         *)
(* A string is the sequence of the code points of its characters, so that  *)
(* every Unicode character the code can meet is a value of the model;      *)
(* S("..") is the string written as a literal. A u64 is held as its        *)
(* canonical decimal numeral (S("0"), S("42"), ...), so that the whole     *)
(* 64-bit range is represented exactly.                                    *)
(***************************************************************************)
EXTENDS Naturals, Sequences, FiniteSets, TLC

VARIABLES
    config,     \* the GlobalConfig handed to Config::build
    lines,      \* the directive lines of one transaction block
    pc,         \* position of the run
    entries,    \* the entries parsed from `lines` (the slice handed to build)
    st,         \* the locals of Config::build (its five `let mut`)
    pos,        \* number of entries the `for` loop of build has taken
    result,     \* what Config::build returned
    line,       \* one input string given to the parsing functions
    origin,     \* `line` before any whitespace was inserted into it
    nws,        \* number of whitespace characters inserted into `line`
    is_new,     \* value of is_new_transaction(line)
    tried,      \* value of Entry::try_parse(line)
    parsed,     \* value of line.parse::<Entry>()
    argument,   \* value of line.parse::<Argument>()
    extra_literals  \* what the external literal grammar accepts beyond its four kinds

vars == <<config, lines, pc, entries, st, pos, result,
          line, origin, nws, is_new, tried, parsed, argument, extra_literals>>

-----------------------------------------------------------------------------
(* Results and options *)

Ok(v) == [ok |-> TRUE, val |-> v]
Err(m, a) == [ok |-> FALSE, msg |-> m, arg |-> a]
None == [some |-> FALSE]
Some(v) == [some |-> TRUE, val |-> v]
NotRun == [run |-> FALSE]

-----------------------------------------------------------------------------
(* std::str *)

\* the printable ASCII characters of the literals: U+0020..U+005F in order,
\* then U+0061..U+007E in order
Printable ==
    " !\"#$%&'()*+,-./0123456789:;<=>?@ABCDEFGHIJKLMNOPQRSTUVWXYZ[\\]^_"
PrintableAfterGrave == "abcdefghijklmnopqrstuvwxyz{|}~"

IndexIn(str, c) == CHOOSE i \in 1..Len(str) : SubSeq(str, i, i) = c

\* the code point of a printable ASCII character
CodePoint ==
    [c \in {SubSeq(Printable, i, i) : i \in 1..Len(Printable)} |-> 31 + IndexIn(Printable, c)]
    @@ [c \in {SubSeq(PrintableAfterGrave, i, i) : i \in 1..Len(PrintableAfterGrave)} |->
           96 + IndexIn(PrintableAfterGrave, c)]

\* the character, and the string, written as a literal
Char(c) == CodePoint[c]
S(lit) == [i \in 1..Len(lit) |-> CodePoint[SubSeq(lit, i, i)]]

\* char::is_whitespace, the Unicode White_Space property: U+0009..U+000D,
\* U+0020, U+0085, U+00A0, U+1680, U+2000..U+200A, U+2028, U+2029, U+202F,
\* U+205F, U+3000
Whitespace ==
    (9..13) \cup {32, 133, 160, 5760} \cup (8192..8202)
            \cup {8232, 8233, 8239, 8287, 12288}

CharAt(s, i) == s[i]

\* &s[n..]
From(s, n) == SubSeq(s, n + 1, Len(s))

starts_with(s, p) == Len(s) >= Len(p) /\ SubSeq(s, 1, Len(p)) = p

ends_with(s, p) == Len(s) >= Len(p) /\ SubSeq(s, Len(s) - Len(p) + 1, Len(s)) = p

RECURSIVE trim_start(_)
trim_start(s) ==
    IF s # <<>> /\ CharAt(s, 1) \in Whitespace THEN trim_start(From(s, 1)) ELSE s

RECURSIVE trim_end(_)
trim_end(s) ==
    IF s # <<>> /\ CharAt(s, Len(s)) \in Whitespace
    THEN trim_end(SubSeq(s, 1, Len(s) - 1))
    ELSE s

trim(s) == trim_end(trim_start(s))

\* s.split_whitespace().collect::<String>()
RECURSIVE CollapseWhitespace(_)
CollapseWhitespace(s) ==
    IF s = <<>> THEN <<>>
    ELSE IF CharAt(s, 1) \in Whitespace
         THEN CollapseWhitespace(From(s, 1))
         ELSE <<CharAt(s, 1)>> \o CollapseWhitespace(From(s, 1))

\* s.split(',') as a sequence of pieces (one empty piece for the empty string)
RECURSIVE SplitComma(_)
SplitComma(s) ==
    IF \E i \in 1..Len(s) : CharAt(s, i) = Char(",")
    THEN LET i == CHOOSE k \in 1..Len(s) :
                      /\ CharAt(s, k) = Char(",")
                      /\ \A j \in 1..(k - 1) : CharAt(s, j) # Char(",")
         IN <<SubSeq(s, 1, i - 1)>> \o SplitComma(From(s, i))
    ELSE <<s>>

UpperLetters == S("ABCDEFGHIJKLMNOPQRSTUVWXYZ")
LowerLetters == S("abcdefghijklmnopqrstuvwxyz")

LowerChar(c) ==
    IF \E i \in 1..Len(UpperLetters) : CharAt(UpperLetters, i) = c
    THEN CharAt(LowerLetters, CHOOSE i \in 1..Len(UpperLetters) : CharAt(UpperLetters, i) = c)
    ELSE c

RECURSIVE to_ascii_lowercase(_)
to_ascii_lowercase(s) ==
    IF s = <<>> THEN <<>>
    ELSE <<LowerChar(CharAt(s, 1))>> \o to_ascii_lowercase(From(s, 1))

Digits == S("0123456789")
IsDigit(c) == \E i \in 1..Len(Digits) : CharAt(Digits, i) = c
DigitValue(c) == (CHOOSE i \in 1..Len(Digits) : CharAt(Digits, i) = c) - 1

RECURSIVE StripZeros(_)
StripZeros(s) ==
    IF Len(s) > 1 /\ CharAt(s, 1) = Char("0") THEN StripZeros(From(s, 1)) ELSE s

U64Max == S("18446744073709551615")

\* a < b for two numerals of the same length
RECURSIVE NumeralLess(_, _)
NumeralLess(a, b) ==
    IF a = <<>> THEN FALSE
    ELSE IF CharAt(a, 1) = CharAt(b, 1) THEN NumeralLess(From(a, 1), From(b, 1))
         ELSE DigitValue(CharAt(a, 1)) < DigitValue(CharAt(b, 1))

ExceedsU64(n) ==
    \/ Len(n) > Len(U64Max)
    \/ Len(n) = Len(U64Max) /\ NumeralLess(U64Max, n)

\* the digit loop of u64::from_str, left to right: acc is the value read so
\* far, d what is still to read; the first character that is no digit, or the
\* first digit with which the value exceeds u64::MAX, ends it
RECURSIVE ScanDigits(_, _)
ScanDigits(acc, d) ==
    IF d = <<>> THEN Ok(acc)
    ELSE IF ~IsDigit(CharAt(d, 1)) THEN Err("invalid digit found in string", <<>>)
    ELSE LET n == StripZeros(acc \o <<CharAt(d, 1)>>)
         IN IF ExceedsU64(n)
            THEN Err("number too large to fit in target type", <<>>)
            ELSE ScanDigits(n, From(d, 1))

\* s.parse::<u64>(): an optional '+', then decimal digits, at most u64::MAX
parse_u64(s) ==
    IF s = <<>> THEN Err("cannot parse integer from empty string", <<>>)
    ELSE LET d == IF Len(s) > 1 /\ CharAt(s, 1) = Char("+") THEN From(s, 1) ELSE s
         IN ScanDigits(S("0"), d)

\* the string literals of transaction.rs
Marker == S("//!")
SenderKey == S("sender:")
ArgsKey == S("args:")
NoRunKey == S("no-run:")
MaxGasKey == S("max-gas:")
SequenceNumberKey == S("sequence-number:")
NewTransaction == S("new-transaction")
OpenBraces == S("{{")
CloseBraces == S("}}")
DefaultSender == S("default")

-----------------------------------------------------------------------------
(* Collaborators defined outside transaction.rs *)

HexPrefix == S("0x")
BytesPrefix == S("b\"")
Quote == S("\"")
BoolLiterals == {S("true"), S("false")}

HexDigits == S("0123456789abcdefABCDEF")
AllHex(s) == \A i \in 1..Len(s) : \E k \in 1..Len(HexDigits) : CharAt(HexDigits, k) = CharAt(s, i)

\* the value of a literal the grammar accepts beyond the four kinds below
Literal(s) == [ty |-> "Literal", v |-> s]

\* libra_types::transaction::parse_as_transaction_argument: the typed-literal
\* grammar (addresses, unsigned numbers, booleans, byte strings, "etc."); what
\* it accepts beyond these four kinds is left open and given by `extra`
parse_as_transaction_argument(extra, s) ==
    IF s \in extra
    THEN Ok(Literal(s))
    ELSE IF starts_with(s, HexPrefix) /\ Len(s) > 2 /\ AllHex(From(s, 2))
    THEN Ok([ty |-> "Address", v |-> to_ascii_lowercase(From(s, 2))])
    ELSE IF parse_u64(s).ok
    THEN Ok([ty |-> "U64", v |-> parse_u64(s).val])
    ELSE IF s \in BoolLiterals
    THEN Ok([ty |-> "Bool", v |-> s])
    ELSE IF /\ Len(s) >= 3
            /\ starts_with(s, BytesPrefix)
            /\ ends_with(s, Quote)
            /\ AllHex(SubSeq(s, 3, Len(s) - 1))
            /\ (Len(s) - 3) % 2 = 0
    THEN Ok([ty |-> "ByteArray", v |-> to_ascii_lowercase(SubSeq(s, 3, Len(s) - 1))])
    ELSE Err("cannot parse as transaction argument", s)

\* crate::evaluator::Stage and its FromStr
Stages == {S("parser"), S("compiler"), S("verifier"), S("serializer"), S("runtime")}

Stage_from_str(s) ==
    IF s \in Stages THEN Ok(s) ELSE Err("unrecognized stage", s)

-----------------------------------------------------------------------------
(* impl FromStr for Argument *)

AddressOf(name) == [tag |-> "AddressOf", v |-> name]
SelfContained(arg) == [tag |-> "SelfContained", v |-> arg]

\* mutant of Argument_from_str: the braces are looked for first
Argument_from_strBracesFirst(extra, s) ==
    IF starts_with(s, OpenBraces) /\ ends_with(s, CloseBraces)
    THEN Ok(AddressOf(SubSeq(s, 3, Len(s) - 2)))
    ELSE IF parse_as_transaction_argument(extra, s).ok
    THEN Ok(SelfContained(parse_as_transaction_argument(extra, s).val))
    ELSE Err("failed to parse '{}' as argument", s)

Argument_from_str(extra, s) ==
    IF parse_as_transaction_argument(extra, s).ok
    THEN Ok(SelfContained(parse_as_transaction_argument(extra, s).val))
    ELSE IF starts_with(s, OpenBraces) /\ ends_with(s, CloseBraces)
    THEN Ok(AddressOf(SubSeq(s, 3, Len(s) - 2)))
    ELSE Err("failed to parse '{}' as argument", s)

-----------------------------------------------------------------------------
(* impl FromStr for Entry *)

DisableStages(stages) == [kind |-> "DisableStages", v |-> stages]
Sender(name) == [kind |-> "Sender", v |-> name]
Arguments(raw_args) == [kind |-> "Arguments", v |-> raw_args]
MaxGas(n) == [kind |-> "MaxGas", v |-> n]
SequenceNumber(sn) == [kind |-> "SequenceNumber", v |-> sn]

\* .map(|s| s.trim()).filter(|s| !s.is_empty())
RECURSIVE TrimmedNonEmpty(_)
TrimmedNonEmpty(pieces) ==
    IF pieces = <<>> THEN <<>>
    ELSE IF trim(Head(pieces)) = <<>> THEN TrimmedNonEmpty(Tail(pieces))
         ELSE <<trim(Head(pieces))>> \o TrimmedNonEmpty(Tail(pieces))

\* .map(|s| s.parse::<Argument>()).collect::<Result<Vec<_>>>(): the first Err wins
RECURSIVE CollectArguments(_, _)
CollectArguments(extra, pieces) ==
    IF pieces = <<>> THEN Ok(<<>>)
    ELSE LET a == Argument_from_str(extra, Head(pieces))
         IN IF ~a.ok THEN a
            ELSE LET rest == CollectArguments(extra, Tail(pieces))
                 IN IF ~rest.ok THEN rest ELSE Ok(<<a.val>> \o rest.val)

\* .map(|s| s.parse::<Stage>()).collect::<Result<Vec<_>>>(): the first Err wins
RECURSIVE CollectStages(_)
CollectStages(pieces) ==
    IF pieces = <<>> THEN Ok(<<>>)
    ELSE LET a == Stage_from_str(Head(pieces))
         IN IF ~a.ok THEN a
            ELSE LET rest == CollectStages(Tail(pieces))
                 IN IF ~rest.ok THEN rest ELSE Ok(<<a.val>> \o rest.val)

\* mutant of SenderBranch: the name is kept in the case it was written in
SenderBranchKeepCase(s) ==
    LET n == trim_end(trim_start(From(s, 7)))
    IN IF n = <<>> THEN Err("sender cannot be empty", <<>>) ELSE Ok(Sender(n))

\* if s.starts_with("sender:") { .. }
SenderBranch(s) ==
    LET n == trim_end(trim_start(From(s, 7)))
    IN IF n = <<>> THEN Err("sender cannot be empty", <<>>)
       ELSE Ok(Sender(to_ascii_lowercase(n)))

\* mutant of CleanLine: the line is trimmed, inner whitespace stays
CleanLineTrimOnly(s) == trim(s)

\* let s = s.split_whitespace().collect::<String>()
CleanLine(s) == CollapseWhitespace(s)

Entry_from_str(extra, line0) ==
    LET c == CleanLine(line0) IN
    IF ~starts_with(c, Marker) THEN Err("txn config entry must start with //!", <<>>)
    ELSE LET s == trim_start(From(c, 3)) IN
    IF starts_with(s, SenderKey)
    THEN SenderBranch(s)
    ELSE IF starts_with(s, ArgsKey)
    THEN LET res == CollectArguments(extra, TrimmedNonEmpty(SplitComma(From(s, 5))))
         IN IF res.ok THEN Ok(Arguments(res.val)) ELSE res
    ELSE IF starts_with(s, NoRunKey)
    THEN LET res == CollectStages(TrimmedNonEmpty(SplitComma(From(s, 7))))
         IN IF res.ok THEN Ok(DisableStages(res.val)) ELSE res
    ELSE IF starts_with(s, MaxGasKey)
    THEN LET n == parse_u64(From(s, 8))
         IN IF n.ok THEN Ok(MaxGas(n.val)) ELSE n
    ELSE IF starts_with(s, SequenceNumberKey)
    THEN LET n == parse_u64(From(s, 16))
         IN IF n.ok THEN Ok(SequenceNumber(n.val)) ELSE n
    ELSE Err("failed to parse '{}' as transaction config entry", s)

\* mutant of is_new_transaction: the line is cleaned as Entry::from_str cleans it
is_new_transactionCollapsed(s0) ==
    LET s == CollapseWhitespace(s0) IN
    IF ~starts_with(s, Marker) THEN FALSE
    ELSE From(s, 3) = NewTransaction

\* pub fn is_new_transaction
is_new_transaction(s0) ==
    LET s == trim(s0) IN
    IF ~starts_with(s, Marker) THEN FALSE
    ELSE trim_start(From(s, 3)) = NewTransaction

\* mutant of Entry_try_parse: the prefix is looked for in the trimmed line
Entry_try_parseTrimmed(extra, s) ==
    IF starts_with(trim(s), Marker)
    THEN LET e == Entry_from_str(extra, s) IN IF e.ok THEN Ok(Some(e.val)) ELSE e
    ELSE Ok(None)

\* Entry::try_parse: Ok(Some(entry)), Ok(None) or the parser's Err
Entry_try_parse(extra, s) ==
    IF starts_with(s, Marker)
    THEN LET e == Entry_from_str(extra, s) IN IF e.ok THEN Ok(Some(e.val)) ELSE e
    ELSE Ok(None)

-----------------------------------------------------------------------------
(* impl Config *)

\* the five `let mut` of Config::build
InitLocals ==
    [disabled_stages |-> {}, sender |-> None, args |-> None,
     max_gas |-> None, sequence_number |-> None]

contains_key(table, name) == name \in DOMAIN table

\* mutant of SenderArm: the account is looked up before the already-set test
SenderArmLookupFirst(cfg, s, name) ==
    IF contains_key(cfg.accounts, name) \/ contains_key(cfg.genesis_accounts, name)
    THEN IF ~s.sender.some
         THEN Ok([s EXCEPT !.sender = Some(name)])
         ELSE Err("sender already set", <<>>)
    ELSE Err("account '{}' does not exist", name)

\* Entry::Sender(name) => match sender
SenderArm(cfg, s, name) ==
    IF ~s.sender.some
    THEN IF contains_key(cfg.accounts, name) \/ contains_key(cfg.genesis_accounts, name)
         THEN Ok([s EXCEPT !.sender = Some(name)])
         ELSE Err("account '{}' does not exist", name)
    ELSE Err("sender already set", <<>>)

\* mutant of ResolveArguments: genesis accounts resolve too
RECURSIVE ResolveArgumentsAnyTable(_, _)
ResolveArgumentsAnyTable(cfg, raw_args) ==
    IF raw_args = <<>> THEN Ok(<<>>)
    ELSE LET arg == Head(raw_args)
             one == IF arg.tag = "AddressOf"
                    THEN IF contains_key(cfg.accounts, arg.v)
                         THEN Ok([ty |-> "Address", v |-> cfg.accounts[arg.v].address])
                         ELSE IF contains_key(cfg.genesis_accounts, arg.v)
                         THEN Ok([ty |-> "Address",
                                  v |-> cfg.genesis_accounts[arg.v].address])
                         ELSE Err("account '{}' does not exist", arg.v)
                    ELSE Ok(arg.v)
         IN IF ~one.ok THEN one
            ELSE LET rest == ResolveArgumentsAnyTable(cfg, Tail(raw_args))
                 IN IF ~rest.ok THEN rest ELSE Ok(<<one.val>> \o rest.val)

\* raw_args.iter().map(..).collect::<Result<Vec<_>>>(): the first Err wins
RECURSIVE ResolveArguments(_, _)
ResolveArguments(cfg, raw_args) ==
    IF raw_args = <<>> THEN Ok(<<>>)
    ELSE LET arg == Head(raw_args)
             one == IF arg.tag = "AddressOf"
                    THEN IF contains_key(cfg.accounts, arg.v)
                         THEN Ok([ty |-> "Address", v |-> cfg.accounts[arg.v].address])
                         ELSE Err("account '{}' does not exist", arg.v)
                    ELSE Ok(arg.v)
         IN IF ~one.ok THEN one
            ELSE LET rest == ResolveArguments(cfg, Tail(raw_args))
                 IN IF ~rest.ok THEN rest ELSE Ok(<<one.val>> \o rest.val)

\* mutant of ArgumentsArm: an empty argument list counts as not set
ArgumentsArmEmptyUnset(cfg, s, raw_args) ==
    IF ~s.args.some \/ s.args.val = <<>>
    THEN LET r == ResolveArguments(cfg, raw_args)
         IN IF r.ok THEN Ok([s EXCEPT !.args = Some(r.val)]) ELSE r
    ELSE Err("transaction arguments already set", <<>>)

\* Entry::Arguments(raw_args) => match args
ArgumentsArm(cfg, s, raw_args) ==
    IF ~s.args.some
    THEN LET r == ResolveArguments(cfg, raw_args)
         IN IF r.ok THEN Ok([s EXCEPT !.args = Some(r.val)]) ELSE r
    ELSE Err("transaction arguments already set", <<>>)

\* mutant of InsertStages: the value of insert() is ignored
RECURSIVE InsertStagesUnchecked(_, _)
InsertStagesUnchecked(set, stages) ==
    IF stages = <<>> THEN Ok(set)
    ELSE InsertStagesUnchecked(set \cup {Head(stages)}, Tail(stages))

\* for stage in stages { if !disabled_stages.insert(*stage) { return Err(..) } }
RECURSIVE InsertStages(_, _)
InsertStages(set, stages) ==
    IF stages = <<>> THEN Ok(set)
    ELSE IF Head(stages) \in set
         THEN Err("duplicate stage '{:?}' in black list", Head(stages))
         ELSE InsertStages(set \cup {Head(stages)}, Tail(stages))

\* Entry::DisableStages(stages)
DisableStagesArm(s, stages) ==
    LET r == InsertStages(s.disabled_stages, stages)
    IN IF r.ok THEN Ok([s EXCEPT !.disabled_stages = r.val]) ELSE r

\* Entry::MaxGas(n) => match max_gas
MaxGasArm(s, n) ==
    IF ~s.max_gas.some
    THEN Ok([s EXCEPT !.max_gas = Some(n)])
    ELSE Err("max gas amount already set", <<>>)

\* Entry::SequenceNumber(sn) => match sequence_number
SequenceNumberArm(s, sn) ==
    IF ~s.sequence_number.some
    THEN Ok([s EXCEPT !.sequence_number = Some(sn)])
    ELSE Err("sequence number already set", <<>>)

\* one iteration of `for entry in entries { match entry { .. } }`
EntryArm(cfg, s, entry) ==
    CASE entry.kind = "Sender" -> SenderArm(cfg, s, entry.v)
      [] entry.kind = "Arguments" -> ArgumentsArm(cfg, s, entry.v)
      [] entry.kind = "DisableStages" -> DisableStagesArm(s, entry.v)
      [] entry.kind = "MaxGas" -> MaxGasArm(s, entry.v)
      [] entry.kind = "SequenceNumber" -> SequenceNumberArm(s, entry.v)

\* mutant of Finalize: an unset sender stays empty
FinalizeNoDefault(s) ==
    [disabled_stages |-> s.disabled_stages,
     sender |-> IF s.sender.some THEN s.sender.val ELSE <<>>,
     args |-> IF s.args.some THEN s.args.val ELSE <<>>,
     max_gas |-> s.max_gas,
     sequence_number |-> s.sequence_number]

\* Ok(Config { .. })
Finalize(s) ==
    [disabled_stages |-> s.disabled_stages,
     sender |-> IF s.sender.some THEN s.sender.val ELSE DefaultSender,
     args |-> IF s.args.some THEN s.args.val ELSE <<>>,
     max_gas |-> s.max_gas,
     sequence_number |-> s.sequence_number]

RECURSIVE FoldEntries(_, _, _)
FoldEntries(cfg, s, es) ==
    IF es = <<>> THEN Ok(s)
    ELSE LET r == EntryArm(cfg, s, Head(es))
         IN IF r.ok THEN FoldEntries(cfg, r.val, Tail(es)) ELSE r

\* Config::build as a function of its two arguments
Config_build(cfg, es) ==
    LET r == FoldEntries(cfg, InitLocals, es)
    IN IF r.ok THEN Ok(Finalize(r.val)) ELSE r

is_stage_disabled(self, stage) == stage \in self.disabled_stages

-----------------------------------------------------------------------------
(* Inputs *)

MaxLines == 3
MaxWs == 2

AccountData(addr) == [address |-> addr]

\* "alice" and "default" are regular accounts, "gen" a genesis account
ConfigRegular ==
    [accounts |-> (S("alice") :> AccountData(S("a11ce"))) @@ (DefaultSender :> AccountData(S("d0"))),
     genesis_accounts |-> (S("gen") :> AccountData(S("9e")))]

\* no regular account at all; "alice" and "gen" are genesis accounts
ConfigGenesis ==
    [accounts |-> [n \in {} |-> AccountData(<<>>)],
     genesis_accounts |-> (S("alice") :> AccountData(S("a9"))) @@ (S("gen") :> AccountData(S("9e")))]

\* "alice" and "bob" are regular accounts; "Gen" is registered in mixed case
ConfigMixed ==
    [accounts |-> (S("alice") :> AccountData(S("a11ce"))) @@ (S("bob") :> AccountData(S("b0b"))),
     genesis_accounts |-> (S("Gen") :> AccountData(S("9e")))]

Configs == {ConfigRegular, ConfigGenesis, ConfigMixed}

\* whitespace characters the inputs are written with
Space == S(" ")
Tab == <<9>>
VerticalTab == <<11>>
NextLine == <<133>>
NoBreakSpace == <<160>>
OghamSpace == <<5760>>
EmSpace == <<8195>>
LineSeparator == <<8232>>
IdeographicSpace == <<12288>>

\* what the external literal grammar accepts beyond its four kinds: nothing,
\* or two tokens that are also of the shape `{{..}}`
NoExtra == {}
BracedExtra == {S("{{alice}}"), S("{{}}")}
LiteralSets == {NoExtra, BracedExtra}

\* directive lines a transaction block is made of
BlockLines ==
    {S("//! sender: Al ice"), S("//! sender: gen"),
     S("//! sender: B") \o IdeographicSpace \o S("ob") \o NoBreakSpace,
     S("//! args:"), S("//! args: , ,"), S("//! args: {{alice}}, 42"),
     S("//! args: true, {{gen}}, {{bob}}"),
     S("//! no-run: parser"), S("//! no-run: runtime, parser"),
     S("//! no-run: verifier"), S("//! no-run: verifier, verifier"), S("//! no-run:"),
     S("//! max-gas: 100"), S("//! max-gas: 200"),
     S("//! sequence-number: 1"), S("//! sequence-number: 2")}

\* Entry::try_parse of each of them
TriedLine == [x \in LiteralSets |-> [l \in BlockLines |-> Entry_try_parse(x, l)]]

Blocks == UNION {[1..n -> BlockLines] : n \in 0..MaxLines}

\* strings given to the parsing functions, before whitespace is inserted
BaseInputs ==
    {S("//!new-transaction"), S("//!new-transaction:"),
     S("//!sender:ALICE"), S("//!sender:bob"), S("//!sender:Gen"), S("//!sender:"),
     S("//! sender: ALICE"), S("//! sender: bob"), S("//! sender: "),
     S("//!args:"), S("//!args:,"), S("//!args:{{alice}},42"), S("//!args:{{}}"),
     S("//!args:0x1F,x"), S("//!args:true,,{{gen}}"),
     S("//!no-run:parser,runtime"), S("//!no-run:"), S("//!no-run:foo"),
     S("//!max-gas:100"), S("//!max-gas:"), S("//!max-gas:1x"), S("//!max-gas:007"),
     S("//!sequence-number:7"), S("//!max-gas:18446744073709551616x"),
     S("//!") \o VerticalTab \o S("max-gas:") \o EmSpace \o S("100"),
     S("//! sender:") \o NoBreakSpace \o S("ALICE"),
     IdeographicSpace \o S("//!") \o LineSeparator \o S("new-transaction") \o NextLine,
     S("//!args:") \o OghamSpace \o S(",") \o Tab,
     <<>>, S("//"), S("//!"), S("sender:alice"),
     S("{{alice}}"), S("{{}}"), S("{{"), S("}}"), S("{{}"), S("{}}"), S("{{a}"), S("alice"),
     S("42"), S("true"), S("0x1F"), S("b\"00\"")}

\* the inputs given under a grammar that accepts `{{alice}}` and `{{}}`
BracedInputs == {S("{{alice}}"), S("{{}}"), S("{{a}"), S("//!args:{{alice}},42")}

ParseInputs == (BaseInputs \X {NoExtra}) \cup (BracedInputs \X {BracedExtra})

\* the whitespace characters inserted into an input
WsChars == {Space, IdeographicSpace}

-----------------------------------------------------------------------------
(* One transaction block: its lines are parsed, the entries are folded *)

ParseIdle ==
    /\ line = <<>> /\ origin = <<>> /\ nws = 0
    /\ is_new = NotRun /\ tried = NotRun /\ parsed = NotRun
    /\ argument = NotRun

parseVars == <<line, origin, nws, is_new, tried, parsed, argument>>
blockVars == <<lines, entries, st, pos, result>>

Init ==
    /\ config \in Configs
    /\ extra_literals \in LiteralSets
    /\ lines \in Blocks
    /\ pc = "read"
    /\ entries = <<>>
    /\ st = InitLocals
    /\ pos = 0
    /\ result = NotRun
    /\ ParseIdle

\* every line of the block goes through Entry::try_parse; the entries are collected
ReadBlock ==
    /\ pc = "read"
    /\ \A i \in 1..Len(lines) : TriedLine[extra_literals][lines[i]].ok
                                  /\ TriedLine[extra_literals][lines[i]].val.some
    /\ entries' = [i \in 1..Len(lines) |-> TriedLine[extra_literals][lines[i]].val.val]
    /\ pc' = "build"
    /\ UNCHANGED <<config, extra_literals, lines, st, pos, result, parseVars>>

\* the loop of Config::build takes entry pos + 1, of kind `kind`; r is what
\* the arm of that kind gives
TakeEntry(kind, r) ==
    /\ pc = "build"
    /\ pos < Len(entries)
    /\ entries[pos + 1].kind = kind
    /\ pos' = pos + 1
    /\ IF r.ok
       THEN st' = r.val /\ UNCHANGED <<pc, result>>
       ELSE result' = r /\ pc' = "done" /\ UNCHANGED st
    /\ UNCHANGED <<config, extra_literals, lines, entries, parseVars>>

BuildSender == TakeEntry("Sender", SenderArm(config, st, entries[pos + 1].v))

BuildArguments == TakeEntry("Arguments", ArgumentsArm(config, st, entries[pos + 1].v))

BuildDisableStages == TakeEntry("DisableStages", DisableStagesArm(st, entries[pos + 1].v))

BuildMaxGas == TakeEntry("MaxGas", MaxGasArm(st, entries[pos + 1].v))

BuildSequenceNumber ==
    TakeEntry("SequenceNumber", SequenceNumberArm(st, entries[pos + 1].v))

\* the loop is over: Ok(Config { .. })
BuildReturn ==
    /\ pc = "build"
    /\ pos = Len(entries)
    /\ result' = Ok(Finalize(st))
    /\ pc' = "done"
    /\ UNCHANGED <<config, extra_literals, lines, entries, st, pos, parseVars>>

Next ==
    \/ ReadBlock
    \/ BuildSender
    \/ BuildArguments
    \/ BuildDisableStages
    \/ BuildMaxGas
    \/ BuildSequenceNumber
    \/ BuildReturn

Spec == Init /\ [][Next]_vars

-----------------------------------------------------------------------------
(* One input string: whitespace is inserted, then each function is applied *)

BlockIdle ==
    /\ lines = <<>> /\ entries = <<>> /\ st = InitLocals /\ pos = 0 /\ result = NotRun

ParseInit ==
    /\ config = ConfigRegular
    /\ \E i \in ParseInputs : line = i[1] /\ origin = i[1] /\ extra_literals = i[2]
    /\ nws = 0
    /\ pc = "input"
    /\ is_new = NotRun /\ tried = NotRun /\ parsed = NotRun
    /\ argument = NotRun
    /\ BlockIdle

InsertWhitespace ==
    /\ pc = "input"
    /\ nws < MaxWs
    /\ \E i \in 0..Len(line), c \in WsChars :
          line' = SubSeq(line, 1, i) \o c \o From(line, i)
    /\ nws' = nws + 1
    /\ UNCHANGED <<config, extra_literals, pc, origin, is_new, tried, parsed, argument, blockVars>>

CallIsNewTransaction ==
    /\ pc = "input"
    /\ is_new' = is_new_transaction(line)
    /\ pc' = "classified"
    /\ UNCHANGED <<config, extra_literals, line, origin, nws, tried, parsed, argument, blockVars>>

CallTryParse ==
    /\ pc = "classified"
    /\ tried' = Entry_try_parse(extra_literals, line)
    /\ pc' = "tried"
    /\ UNCHANGED <<config, extra_literals, line, origin, nws, is_new, parsed, argument, blockVars>>

CallEntryFromStr ==
    /\ pc = "tried"
    /\ parsed' = Entry_from_str(extra_literals, line)
    /\ pc' = "parsed"
    /\ UNCHANGED <<config, extra_literals, line, origin, nws, is_new, tried, argument, blockVars>>

CallArgumentFromStr ==
    /\ pc = "parsed"
    /\ argument' = Argument_from_str(extra_literals, line)
    /\ pc' = "argument"
    /\ UNCHANGED <<config, extra_literals, line, origin, nws, is_new, tried, parsed, blockVars>>

ParseNext ==
    \/ InsertWhitespace
    \/ CallIsNewTransaction
    \/ CallTryParse
    \/ CallEntryFromStr
    \/ CallArgumentFromStr

SpecParse == ParseInit /\ [][ParseNext]_vars

-----------------------------------------------------------------------------
(* Properties of Config::build, checked under Spec *)

Done == pc = "done"
Failed(msg, a) == Done /\ result = Err(msg, a)
Keys == DOMAIN config.accounts \cup DOMAIN config.genesis_accounts

SingleKinds == {"Sender", "Arguments", "MaxGas", "SequenceNumber"}

AlreadySet(kind) ==
    CASE kind = "Sender" -> "sender already set"
      [] kind = "Arguments" -> "transaction arguments already set"
      [] kind = "MaxGas" -> "max gas amount already set"
      [] kind = "SequenceNumber" -> "sequence number already set"

\* entry k is of a single-valued kind that an earlier entry has too
Repeats(k) ==
    /\ entries[k].kind \in SingleKinds
    /\ \E j \in 1..(k - 1) : entries[j].kind = entries[k].kind

\* C1: when the loop of build takes an entry of a single-valued kind that an
\* earlier entry has too, build fails at that entry with the kind's
\* "already set" error, whatever the two values are and whether or not a
\* repeated sender is registered; the first entry of a kind never gives that
\* error; a block with two entries of one single-valued kind yields no Config.
C1_SecondOfKindFails ==
    /\ \A k \in 1..pos :
          Repeats(k) => pos = k /\ Failed(AlreadySet(entries[k].kind), <<>>)
    /\ (Done /\ ~result.ok /\ result.msg \in {AlreadySet(kd) : kd \in SingleKinds})
          => Repeats(pos) /\ result.msg = AlreadySet(entries[pos].kind)
    /\ (Done /\ result.ok) => \A k \in 1..Len(entries) : ~Repeats(k)

\* a registered sender, then an unregistered one: "sender already set"
C1_Witness ==
    /\ Done /\ pos = 2
    /\ entries[1].kind = "Sender" /\ entries[1].v \in Keys
    /\ entries[2].kind = "Sender" /\ entries[2].v \notin Keys
    /\ result = Err("sender already set", <<>>)

\* the stages listed by the DisableStages entries among the first k entries
RECURSIVE Listed(_)
Listed(k) ==
    IF k = 0 THEN <<>>
    ELSE Listed(k - 1) \o (IF entries[k].kind = "DisableStages" THEN entries[k].v ELSE <<>>)

IsRepeat(l, j) == \E i \in 1..(j - 1) : l[i] = l[j]
HasRepeat(l) == \E j \in 1..Len(l) : IsRepeat(l, j)
FirstRepeat(l) ==
    l[CHOOSE j \in 1..Len(l) : IsRepeat(l, j) /\ \A i \in 1..(j - 1) : ~IsRepeat(l, i)]

\* C2: when the loop of build takes a DisableStages entry with which some stage
\* is listed a second time (in that entry's own list or in an earlier entry),
\* build fails at that entry with "duplicate stage .. in black list" naming the
\* first repeated stage; when build succeeds every stage is listed once, the
\* disabled stages are the listed ones, and is_stage_disabled agrees.
C2_DuplicateStageFails ==
    /\ \A k \in 1..pos :
          (entries[k].kind = "DisableStages" /\ HasRepeat(Listed(k)))
             => pos = k /\ Failed("duplicate stage '{:?}' in black list",
                                  FirstRepeat(Listed(k)))
    /\ (Done /\ result.ok) =>
          LET l == Listed(Len(entries)) IN
          /\ ~HasRepeat(l)
          /\ result.val.disabled_stages = {l[i] : i \in 1..Len(l)}
          /\ \A stage \in Stages :
                is_stage_disabled(result.val, stage) <=> \E i \in 1..Len(l) : l[i] = stage

\* a stage listed again by a later entry whose own list has no repeat
C2_Witness ==
    /\ Done /\ pos = 2
    /\ entries[1].kind = "DisableStages" /\ entries[2].kind = "DisableStages"
    /\ Len(entries[2].v) = 2 /\ ~HasRepeat(entries[2].v)
    /\ result = Err("duplicate stage '{:?}' in black list", entries[2].v[2])

FirstArguments(k) ==
    /\ entries[k].kind = "Arguments"
    /\ \A j \in 1..(k - 1) : entries[j].kind # "Arguments"

InAccounts(arg) == arg.tag = "AddressOf" => arg.v \in DOMAIN config.accounts

Resolved(raw) ==
    [i \in 1..Len(raw) |->
        IF raw[i].tag = "AddressOf"
        THEN [ty |-> "Address", v |-> config.accounts[raw[i].v].address]
        ELSE raw[i].v]

FirstAbsent(raw) ==
    raw[CHOOSE i \in 1..Len(raw) :
            ~InAccounts(raw[i]) /\ \A j \in 1..(i - 1) : InAccounts(raw[j])].v

\* C4: when the loop of build takes the first Arguments entry: if every
\* AddressOf name is a regular account, args become the entry's list, in order,
\* with SelfContained(v) as v and AddressOf(name) as the address of
\* accounts[name], and a Config that is built carries them; otherwise (a name
\* registered nowhere or only as a genesis account) build fails there with
\* "account '<name>' does not exist" for the first such name.
C4_ArgumentsResolved ==
    \A k \in 1..pos :
        FirstArguments(k) =>
            LET raw == entries[k].v IN
            IF \A i \in 1..Len(raw) : InAccounts(raw[i])
            THEN /\ st.args = Some(Resolved(raw))
                 /\ Len(st.args.val) = Len(raw)
                 /\ (Done /\ pos = k) => result.ok
                 /\ (Done /\ result.ok) => result.val.args = Resolved(raw)
            ELSE pos = k /\ Failed("account '{}' does not exist", FirstAbsent(raw))

\* an argument naming an account that is a genesis account only
C4_Witness ==
    /\ Done /\ pos >= 1 /\ FirstArguments(pos)
    /\ \E i \in 1..Len(entries[pos].v) :
          /\ entries[pos].v[i].tag = "AddressOf"
          /\ entries[pos].v[i].v \in DOMAIN config.genesis_accounts
          /\ result = Err("account '{}' does not exist", entries[pos].v[i].v)

OfKind(kind) == {k \in 1..Len(entries) : entries[k].kind = kind}
TheOne(kind) == entries[CHOOSE k \in OfKind(kind) : TRUE].v

\* C5: when build succeeds, sender is "default" without a Sender entry and the
\* single Sender entry's name otherwise; args are empty without an Arguments
\* entry; max_gas and sequence_number are None without their entry and Some of
\* the single value otherwise; the empty block gives the all-default Config.
C5_Defaults ==
    /\ (Done /\ result.ok) =>
          /\ \A kind \in SingleKinds : Cardinality(OfKind(kind)) <= 1
          /\ result.val.sender =
                IF OfKind("Sender") = {} THEN DefaultSender ELSE TheOne("Sender")
          /\ OfKind("Arguments") = {} => result.val.args = <<>>
          /\ result.val.max_gas =
                IF OfKind("MaxGas") = {} THEN None ELSE Some(TheOne("MaxGas"))
          /\ result.val.sequence_number =
                IF OfKind("SequenceNumber") = {} THEN None
                ELSE Some(TheOne("SequenceNumber"))
    /\ (Done /\ entries = <<>>) =>
          result = Ok([disabled_stages |-> {}, sender |-> DefaultSender, args |-> <<>>,
                       max_gas |-> None, sequence_number |-> None])

\* no Sender entry, "default" in neither table, and the Config says "default"
C5_Witness ==
    /\ Done /\ result.ok
    /\ entries # <<>> /\ OfKind("Sender") = {}
    /\ DefaultSender \notin Keys
    /\ result.val.sender = DefaultSender
    /\ result.val.max_gas = Some(S("100"))

\* an `args:` directive with nothing but commas and whitespace after the colon
NoArgumentListed(l) ==
    LET c == CollapseWhitespace(l) IN
    /\ starts_with(c, S("//!args:"))
    /\ \A i \in 9..Len(c) : CharAt(c, i) = Char(",")

NoArgumentLine == [l \in BlockLines |-> NoArgumentListed(l)]

IsEmptyArguments(e) == e.kind = "Arguments" /\ e.v = <<>>

\* entry k is an Arguments entry that follows an Arguments([]) entry
AfterEmptyArguments(k) ==
    /\ entries[k].kind = "Arguments"
    /\ \E j \in 1..(k - 1) : IsEmptyArguments(entries[j])

EmptyArgumentsParse ==
    /\ pc # "read" => \A i \in 1..Len(lines) :
                          NoArgumentLine[lines[i]] => IsEmptyArguments(entries[i])
    /\ Config_build(config, <<Arguments(<<>>)>>).ok
    /\ Config_build(config, <<Arguments(<<>>)>>).val.args = Config_build(config, <<>>).val.args

\* C9 as claimed: an `args:` directive listing no argument parses to
\* Arguments([]), and build on every block in which an Arguments([]) entry is
\* followed by another Arguments entry fails with "transaction arguments
\* already set".
C9_Original ==
    /\ EmptyArgumentsParse
    /\ (Done /\ \E k \in 1..Len(entries) : AfterEmptyArguments(k))
          => result = Err("transaction arguments already set", <<>>)

\* C9, amended: an `args:` directive listing no argument parses to
\* Arguments([]); build on every block in which an Arguments([]) entry is
\* followed by another Arguments entry fails, and when its loop takes that
\* later entry (no entry before it has failed) it fails there with
\* "transaction arguments already set".
C9_EmptyArgumentsCount ==
    /\ EmptyArgumentsParse
    /\ (Done /\ \E k \in 1..Len(entries) : AfterEmptyArguments(k)) => ~result.ok
    /\ \A k \in 1..pos :
          AfterEmptyArguments(k)
             => pos = k /\ Failed("transaction arguments already set", <<>>)

\* `args: , ,` then an `args:` line that lists arguments
C9_Witness ==
    /\ Done /\ pos = 2
    /\ NoArgumentLine[lines[1]] /\ lines[1] # S("//! args:")
    /\ IsEmptyArguments(entries[1])
    /\ entries[2].kind = "Arguments" /\ entries[2].v # <<>>
    /\ result = Err("transaction arguments already set", <<>>)

NotWhitespace(c) == c \notin Whitespace

\* the line is `//! sender: N`; N as written, N lowercased, and N with every
\* whitespace character removed and then lowercased
SenderPrefix == S("//! sender: ")
SenderLine == [l \in BlockLines |-> starts_with(l, SenderPrefix)]
NameWritten == [l \in BlockLines |-> From(l, Len(SenderPrefix))]
NameLowered == [l \in BlockLines |-> to_ascii_lowercase(NameWritten[l])]
NameCleaned ==
    [l \in BlockLines |-> to_ascii_lowercase(SelectSeq(NameWritten[l], NotWhitespace))]

\* line k is the only sender directive of the block
OnlySender(k) ==
    /\ SenderLine[lines[k]]
    /\ \A j \in 1..Len(entries) : entries[j].kind = "Sender" => j = k

\* C3 as claimed: on a block whose only sender directive is the line
\* `//! sender: N` with N non-empty, from_str and then build give sender =
\* ASCII-lowercased N when that name is a key of one of the two account tables,
\* and fail with "account '<lowercased N>' does not exist" otherwise.
C3_Original ==
    Done => \A k \in 1..Len(lines) :
        (OnlySender(k) /\ NameWritten[lines[k]] # <<>>) =>
            LET n == NameLowered[lines[k]] IN
            IF n \in Keys
            THEN result.ok /\ result.val.sender = n
            ELSE result = Err("account '{}' does not exist", n)

\* C3, amended: on a block whose only sender directive is the line
\* `//! sender: N` with at least one non-whitespace character in N, from_str
\* gives Sender(n), n being N with every whitespace character removed and
\* ASCII-lowercased; when the loop of build takes that entry (no entry before
\* it has failed), n becomes the sender if it is a key of one of the two
\* account tables, and build fails there with "account '<n>' does not exist"
\* otherwise; whenever build succeeds on the block, its sender is n.
C3_SenderResolved ==
    pc # "read" => \A k \in 1..Len(lines) :
        (OnlySender(k) /\ NameCleaned[lines[k]] # <<>>) =>
            LET n == NameCleaned[lines[k]] IN
            /\ entries[k] = Sender(n)
            /\ k <= pos =>
                  IF n \in Keys
                  THEN st.sender = Some(n)
                  ELSE pos = k /\ Failed("account '{}' does not exist", n)
            /\ (Done /\ result.ok) => result.val.sender = n

\* a name in upper case with whitespace inside it, after another directive,
\* resolved to a registered account
C3_Witness ==
    /\ Done /\ result.ok /\ Len(lines) = 2
    /\ OnlySender(2)
    /\ NameWritten[lines[2]] # SelectSeq(NameWritten[lines[2]], NotWhitespace)
    /\ NameCleaned[lines[2]] # NameLowered[lines[2]]
    /\ NameWritten[lines[2]] # NameLowered[lines[2]]
    /\ result.val.sender = S("alice")

-----------------------------------------------------------------------------
(* Properties of the parsing functions, checked under SpecParse *)

AfterClassified == pc # "input"
AfterParsed == pc \in {"parsed", "argument"}
AfterArgument == pc = "argument"

BoundaryLine == S("//! new-transaction")

\* the characters i..j of l are whitespace; p is in l right after position a
WhitespaceIn(l, i, j) == \A k \in i..j : l[k] \in Whitespace
FoundAt(l, a, p) == a + Len(p) <= Len(l) /\ SubSeq(l, a + 1, a + Len(p)) = p

\* whitespace, `//!`, whitespace (possibly none), `new-transaction`, whitespace
MarkedNewTransaction(l) ==
    \E a \in 0..Len(l) :
        /\ WhitespaceIn(l, 1, a)
        /\ FoundAt(l, a, Marker)
        /\ \E b \in (a + 3)..Len(l) :
              /\ WhitespaceIn(l, a + 4, b)
              /\ FoundAt(l, b, NewTransaction)
              /\ WhitespaceIn(l, b + 16, Len(l))

\* C6 as claimed: is_new_transaction is true only for a line that is exactly
\* `//! new-transaction` once trimmed.
C6_Original ==
    (AfterClassified /\ is_new = TRUE) => trim(line) = BoundaryLine

\* C6, amended: is_new_transaction is true exactly for a line that, once
\* trimmed, is `//!`, then any amount of whitespace (none included), then
\* `new-transaction`; whitespace inside the marker or inside the token, or any
\* other text, makes it false.
C6_NewTransactionLines ==
    AfterClassified => (is_new <=> MarkedNewTransaction(line))

\* a boundary line that is not `//! new-transaction` once trimmed
C6_Witness ==
    /\ AfterClassified /\ is_new = TRUE
    /\ line # trim(line)
    /\ trim(line) # BoundaryLine

\* C7: Argument::from_str gives SelfContained(value) when the typed-literal
\* parser accepts the token, also when the token starts with `{{` and ends
\* with `}}`; otherwise AddressOf(X) with token = `{{` X `}}` when the token
\* starts with `{{` and ends with `}}` (so the token has at least four
\* characters and X may be empty); otherwise an error carrying the token.
C7_ArgumentPriority ==
    AfterArgument =>
        LET lit == parse_as_transaction_argument(extra_literals, line) IN
        IF lit.ok
        THEN argument = Ok(SelfContained(lit.val))
        ELSE IF starts_with(line, OpenBraces) /\ ends_with(line, CloseBraces)
        THEN /\ Len(line) >= 4
             /\ argument.ok /\ argument.val.tag = "AddressOf"
             /\ line = OpenBraces \o argument.val.v \o CloseBraces
        ELSE argument = Err("failed to parse '{}' as argument", line)

\* a token the literal grammar accepts and that is also of the shape `{{..}}`
C7_Witness ==
    /\ AfterArgument
    /\ starts_with(line, OpenBraces) /\ ends_with(line, CloseBraces)
    /\ line \in extra_literals
    /\ argument = Ok(SelfContained(Literal(line)))

BaseClean == [b \in BaseInputs |-> CollapseWhitespace(b)]
BaseParsed == [x \in LiteralSets |-> [b \in BaseInputs |-> Entry_from_str(x, b)]]

\* the outcomes of the inputs that have the whitespace-free text of input o
SameTextParsed ==
    [x \in LiteralSets |->
        [o \in BaseInputs |->
            {BaseParsed[x][b] : b \in {i \in BaseInputs : BaseClean[i] = BaseClean[o]}}]]

\* C8: two lines that are the same string once every whitespace character is
\* removed get the same outcome from Entry::from_str: the outcome for `line`
\* (its origin with whitespace inserted anywhere) is the outcome for every
\* input that has the whitespace-free text of `line`.
C8_WhitespaceInsensitive ==
    AfterParsed =>
        /\ SelectSeq(line, NotWhitespace) = BaseClean[origin]
        /\ SameTextParsed[extra_literals][origin] = {parsed}

\* whitespace inside a number literal
C8_Witness ==
    /\ AfterParsed /\ line = S("//!max-gas:1 0") \o IdeographicSpace \o S("0")
    /\ parsed = Ok(MaxGas(S("100")))

\* C10: on a line for which is_new_transaction is true, Entry::from_str fails
\* with "failed to parse 'new-transaction' as transaction config entry";
\* Entry::try_parse returns that error when the line starts with `//!` and
\* Ok(None) when the line starts with whitespace, and one of the two is the case.
C10_BoundaryIsNoEntry ==
    (AfterParsed /\ is_new = TRUE) =>
        /\ parsed = Err("failed to parse '{}' as transaction config entry", NewTransaction)
        /\ starts_with(line, Marker) => tried = parsed
        /\ CharAt(line, 1) \in Whitespace => tried = Ok(None)
        /\ starts_with(line, Marker) \/ CharAt(line, 1) \in Whitespace

\* a boundary line with leading whitespace: try_parse says it is no directive
C10_Witness ==
    /\ AfterParsed /\ is_new = TRUE
    /\ tried = Ok(None)

====
